---- MODULE Spec2Model ----
(***************************************************************************)
(* Model of the appointment booking backend (server.js): the doctor_slots  *)
(* and appointments tables, and the request handlers that publish, claim,  *)
(* delete and release slots.                                               *)
(*                                                                         *)
(* The store is MySQL/InnoDB.  A statement sent with pool.query runs in    *)
(* autocommit mode and reads the last committed rows.  A statement sent on *)
(* a connection after beginTransaction() takes an exclusive lock on each   *)
(* row it updates or deletes and holds it until commit or rollback; its    *)
(* writes are pending until the commit.  A statement that needs a row       *)
(* locked by another transaction waits; InnoDB breaks a wait cycle by       *)
(* failing one of the waiting statements.                                   *)
(*                                                                         *)
(* DATETIME values are opaque tokens: the slot_at read by the pre-check is *)
(* passed unchanged to the appointment INSERT, and the scheduled_at read   *)
(* by the cancel is passed unchanged to the release UPDATE.  They are      *)
(* ordered by their position in Instants.                                  *)
(***************************************************************************)
EXTENDS Integers, FiniteSets, Sequences, TLC

\* ------------------------------------------------------------------ bounds
NumWorkers == 2         \* requests that can be in flight at the same time
MaxSlotId == 2          \* AUTO_INCREMENT values available to doctor_slots
MaxApptId == 2          \* AUTO_INCREMENT values available to appointments
MaxSlots == 2           \* longest slots array of one publish request

Workers == 1..NumWorkers
Patients == {"p1", "p2"}
Doctors == {"d1", "d2"}
Users == Patients \cup Doctors
Times == {"t1", "t2"}
Malformed == "bad"

\* DATETIME order: the timestamps of the slots and the values NOW() takes
\* before, between and after them, in ascending order
Instants == <<"n0", "t1", "n1", "t2", "n2">>
Rank(x) == CHOOSE i \in DOMAIN Instants : Instants[i] = x

\* users.role of a registered user (the role carried by the token)
role(u) == IF u \in Doctors THEN "doctor" ELSE "patient"

\* validateDateTimeSQL: the timestamps of the model are well formed, the
\* token Malformed is a value that is not
validateDateTimeSQL(dt) == dt \in Times

\* variant of authorizeRoles: every authenticated caller passes
authorizeAnyRole(allowedRoles, u) == u \in Users

\* authorizeRoles(...allowedRoles)
authorizeRoles(allowedRoles, u) == role(u) \in allowedRoles

VARIABLES
  doctor_slots,   \* committed rows of doctor_slots
  appointments,   \* committed rows of appointments
  nextSlotId,     \* AUTO_INCREMENT counter of doctor_slots
  nextApptId,     \* AUTO_INCREMENT counter of appointments
  pc,             \* position of each request handler
  req,            \* the request a worker runs (or ran last)
  snap,           \* the row read by the handler's first SELECT
  txn,            \* the open transaction of the handler's connection
  conn,           \* workers holding a pool connection
  resp,           \* the response sent (empty until the handler responds)
  users,          \* committed rows of users
  profiles,       \* committed rows of patients and doctors
  pending,        \* the uncommitted rows of each handler's connection
  pool            \* the uncommitted rows left on idle pool connections

vars == <<doctor_slots, appointments, nextSlotId, nextApptId,
          pc, req, snap, txn, conn, resp, users, profiles, pending, pool>>

db == <<doctor_slots, appointments>>

accounts == <<users, profiles, pending, pool>>

\* arg: doctorSlotId, :id, or the body of a publish request
NoReq == [op |-> "none", user |-> "none", arg |-> 0]
\* slot/appt: id of the row locked by the transaction (0: none);
\* is_booked: the pending value of the locked slot; ins: the pending insert
NoTxn == [slot |-> 0, is_booked |-> 0, appt |-> 0, ins |-> {}]
\* users/profiles: rows written by a connection's open transaction
NoPending == [users |-> {}, profiles |-> {}]

Reply(status, message, data) == [status |-> status, message |-> message, data |-> data]

\* ---------------------------------------------------------------- the store

SlotById(id) == {s \in doctor_slots : s.id = id}
SlotByKey(d, t) == {s \in doctor_slots : s.doctor_user_id = d /\ s.slot_at = t}
ApptById(id) == {a \in appointments : a.id = id}
ApptByKey(d, t) == {a \in appointments : a.doctor_user_id = d /\ a.scheduled_at = t}

\* the transaction (if any) holding the row lock of a slot / an appointment
SlotLockHolders(id) == {w \in Workers : txn[w].slot = id}
ApptLockHolders(id) == {w \in Workers : txn[w].appt = id}
\* transactions with a pending insert under the unique key ux_appt_doctor_time
PendingInsert(d, t) ==
  {w \in Workers : \E a \in txn[w].ins : a.doctor_user_id = d /\ a.scheduled_at = t}

\* COMMIT: the pending writes of w's transaction become the committed rows
CommittedSlots(w) ==
  IF txn[w].slot = 0 THEN doctor_slots
  ELSE {IF s.id = txn[w].slot
          THEN [s EXCEPT !.is_booked = txn[w].is_booked]
          ELSE s : s \in doctor_slots}

CommittedAppts(w) ==
  {a \in appointments : a.id # txn[w].appt} \cup txn[w].ins

\* variant of InsertIgnore: a plain INSERT that does not skip existing keys
RECURSIVE InsertAll(_, _, _, _, _)
InsertAll(rows, nid, doctorId, values, affected) ==
  IF values = <<>> THEN [rows |-> rows, next |-> nid, affectedRows |-> affected]
  ELSE InsertAll(
         rows \cup {[id |-> nid, doctor_user_id |-> doctorId,
                     slot_at |-> Head(values), is_booked |-> 0]},
         nid + 1, doctorId, Tail(values), affected + 1)

\* variant of InsertIgnore: INSERT ... ON DUPLICATE KEY UPDATE is_booked = 0,
\* a row whose key exists is reset to free
RECURSIVE InsertOrReset(_, _, _, _, _)
InsertOrReset(rows, nid, doctorId, values, affected) ==
  IF values = <<>> THEN [rows |-> rows, next |-> nid, affectedRows |-> affected]
  ELSE IF \E s \in rows : s.doctor_user_id = doctorId /\ s.slot_at = Head(values)
    THEN InsertOrReset(
           {IF s.doctor_user_id = doctorId /\ s.slot_at = Head(values)
              THEN [s EXCEPT !.is_booked = 0] ELSE s : s \in rows},
           nid, doctorId, Tail(values), affected)
    ELSE InsertOrReset(
           rows \cup {[id |-> nid, doctor_user_id |-> doctorId,
                       slot_at |-> Head(values), is_booked |-> 0]},
           nid + 1, doctorId, Tail(values), affected + 1)

\* INSERT IGNORE INTO doctor_slots (doctor_user_id, slot_at) VALUES ?
\* rows are taken in order; a row whose (doctor_user_id, slot_at) exists is
\* skipped (ux_doctor_slot); affectedRows counts the rows inserted
RECURSIVE InsertIgnore(_, _, _, _, _)
InsertIgnore(rows, nid, doctorId, values, affected) ==
  IF values = <<>> THEN [rows |-> rows, next |-> nid, affectedRows |-> affected]
  ELSE IF \E s \in rows : s.doctor_user_id = doctorId /\ s.slot_at = Head(values)
    THEN InsertIgnore(rows, nid, doctorId, Tail(values), affected)
    ELSE InsertIgnore(
           rows \cup {[id |-> nid, doctor_user_id |-> doctorId,
                       slot_at |-> Head(values), is_booked |-> 0]},
           nid + 1, doctorId, Tail(values), affected + 1)

\* ------------------------------------------------------------------- Init

Init ==
  /\ doctor_slots = {}
  /\ appointments = {}
  /\ nextSlotId = 1
  /\ nextApptId = 1
  /\ pc = [w \in Workers |-> "idle"]
  /\ req = [w \in Workers |-> NoReq]
  /\ snap = [w \in Workers |-> {}]
  /\ txn = [w \in Workers |-> NoTxn]
  /\ conn = {}
  /\ resp = [w \in Workers |-> {}]
  /\ users = {}
  /\ profiles = {}
  /\ pending = [w \in Workers |-> NoPending]
  /\ pool = {}

\* variant of Respond: the handler returns without conn.release()
RespondHolding(w, r) ==
  /\ pc' = [pc EXCEPT ![w] = "idle"]
  /\ resp' = [resp EXCEPT ![w] = {r}]
  /\ snap' = [snap EXCEPT ![w] = {}]
  /\ txn' = [txn EXCEPT ![w] = NoTxn]
  /\ UNCHANGED conn
  /\ UNCHANGED accounts

\* a handler sends its response and returns; the connection, if any, has
\* been released by the finally block
Respond(w, r) ==
  /\ pc' = [pc EXCEPT ![w] = "idle"]
  /\ resp' = [resp EXCEPT ![w] = {r}]
  /\ snap' = [snap EXCEPT ![w] = {}]
  /\ txn' = [txn EXCEPT ![w] = NoTxn]
  /\ conn' = conn \ {w}
  /\ UNCHANGED accounts

\* a handler moves on to its next statement
Goto(w, label) ==
  /\ pc' = [pc EXCEPT ![w] = label]
  /\ UNCHANGED resp
  /\ UNCHANGED accounts

\* a handler is past its checks and its first SELECT: no response yet
Start(w, label) ==
  /\ pc' = [pc EXCEPT ![w] = label]
  /\ resp' = [resp EXCEPT ![w] = {}]
  /\ UNCHANGED accounts

Accept(w, op, u, arg) ==
  /\ pc[w] = "idle"
  /\ req' = [req EXCEPT ![w] = [op |-> op, user |-> u, arg |-> arg]]

\* ------------------------------------------------ POST /doctor/slots

\* the request bodies: slots missing / not an array, or an array of values
SlotArrays == UNION {[1..n -> Times \cup {Malformed}] : n \in 0..MaxSlots}
PublishBodies ==
  {[isArray |-> FALSE, slots |-> <<>>]} \cup
  {[isArray |-> TRUE, slots |-> a] : a \in SlotArrays}

\* variant of PublishSlots: the elements that are not well formed are
\* dropped and the others inserted
PublishSlotsLenient(w, u, body) ==
  /\ Accept(w, "publish", u, body)
  /\ UNCHANGED <<appointments, nextApptId>>
  /\ IF ~authorizeRoles({"doctor"}, u)
       THEN /\ Respond(w, Reply(403, "Access denied: insufficient role", {}))
            /\ UNCHANGED <<doctor_slots, nextSlotId>>
     ELSE IF ~body.isArray \/ Len(body.slots) = 0
       THEN /\ Respond(w, Reply(400, "slots (array) required", {}))
            /\ UNCHANGED <<doctor_slots, nextSlotId>>
     ELSE LET result == InsertIgnore(doctor_slots, nextSlotId, u,
                          SelectSeq(body.slots, validateDateTimeSQL), 0) IN
            /\ result.next <= MaxSlotId + 1
            /\ doctor_slots' = result.rows
            /\ nextSlotId' = result.next
            /\ Respond(w, Reply(201, "", {[inserted |-> result.affectedRows]}))

PublishSlots(w, u, body) ==
  /\ Accept(w, "publish", u, body)
  /\ UNCHANGED <<appointments, nextApptId>>
  /\ IF ~authorizeRoles({"doctor"}, u)
       THEN /\ Respond(w, Reply(403, "Access denied: insufficient role", {}))
            /\ UNCHANGED <<doctor_slots, nextSlotId>>
     ELSE IF ~body.isArray \/ Len(body.slots) = 0
       THEN /\ Respond(w, Reply(400, "slots (array) required", {}))
            /\ UNCHANGED <<doctor_slots, nextSlotId>>
     ELSE IF \E i \in 1..Len(body.slots) : ~validateDateTimeSQL(body.slots[i])
       THEN /\ Respond(w, Reply(400, "Invalid slot format", {}))
            /\ UNCHANGED <<doctor_slots, nextSlotId>>
     ELSE LET result == InsertIgnore(doctor_slots, nextSlotId, u, body.slots, 0) IN
            /\ result.next <= MaxSlotId + 1
            /\ doctor_slots' = result.rows
            /\ nextSlotId' = result.next
            /\ Respond(w, Reply(201, "", {[inserted |-> result.affectedRows]}))

\* ------------------------------------------------ POST /appointments

\* doctorSlotId values of a request body; 0 stands for a missing one
SlotIdArgs == 0..MaxSlotId

\* what the statement of a waiting transaction waits for: the transactions
\* holding a lock it needs
InsertBlockers(w) ==
  LET d == (CHOOSE s \in snap[w] : TRUE).doctor_user_id
      t == (CHOOSE s \in snap[w] : TRUE).slot_at
  IN  (UNION {ApptLockHolders(a.id) : a \in ApptByKey(d, t)}
         \cup PendingInsert(d, t)) \ {w}

ReleaseBlockers(w) ==
  LET d == (CHOOSE a \in snap[w] : TRUE).doctor_user_id
      t == (CHOOSE a \in snap[w] : TRUE).scheduled_at
  IN  UNION {SlotLockHolders(s.id) : s \in SlotByKey(d, t)} \ {w}

WaitsFor(w) ==
  CASE pc[w] = "c_update" -> SlotLockHolders(req[w].arg) \ {w}
    [] pc[w] = "c_insert" -> InsertBlockers(w)
    [] pc[w] = "x_delete" -> ApptLockHolders(req[w].arg) \ {w}
    [] pc[w] = "x_release" -> ReleaseBlockers(w)
    [] pc[w] = "d_delete" -> SlotLockHolders(req[w].arg) \ {w}
    [] OTHER -> {}

RECURSIVE WaitChain(_, _)
WaitChain(ws, n) ==
  IF n = 0 THEN ws
  ELSE WaitChain(ws \cup UNION {WaitsFor(q) : q \in ws}, n - 1)

\* w's statement is part of a wait cycle (ER_LOCK_DEADLOCK)
Deadlocked(w) == w \in WaitChain(WaitsFor(w), NumWorkers)

\* variant of ClaimRead: no "if (!slot)" check; reading slot.is_booked of a
\* missing row throws and the outer catch block responds 500
ClaimReadNoLookup(w, u, doctorSlotId) ==
  /\ Accept(w, "claim", u, doctorSlotId)
  /\ UNCHANGED <<doctor_slots, appointments, nextSlotId, nextApptId>>
  /\ IF ~authorizeRoles({"patient"}, u)
       THEN Respond(w, Reply(403, "Access denied: insufficient role", {}))
     ELSE IF doctorSlotId = 0
       THEN Respond(w, Reply(400, "doctorSlotId is required", {}))
     ELSE IF SlotById(doctorSlotId) = {}
       THEN Respond(w, Reply(500, "Server error", {}))
     ELSE IF \E slot \in SlotById(doctorSlotId) : slot.is_booked = 1
       THEN Respond(w, Reply(409, "Slot already booked", {}))
     ELSE /\ snap' = [snap EXCEPT ![w] = SlotById(doctorSlotId)]
          /\ Start(w, "c_begin")
          /\ UNCHANGED <<txn, conn>>

\* variant of ClaimRead: no "if (slot.is_booked)" check; a booked slot is
\* left to the conditional UPDATE of the transaction
ClaimReadNoPrecheck(w, u, doctorSlotId) ==
  /\ Accept(w, "claim", u, doctorSlotId)
  /\ UNCHANGED <<doctor_slots, appointments, nextSlotId, nextApptId>>
  /\ IF ~authorizeRoles({"patient"}, u)
       THEN Respond(w, Reply(403, "Access denied: insufficient role", {}))
     ELSE IF doctorSlotId = 0
       THEN Respond(w, Reply(400, "doctorSlotId is required", {}))
     ELSE IF SlotById(doctorSlotId) = {}
       THEN Respond(w, Reply(404, "Slot not found", {}))
     ELSE /\ snap' = [snap EXCEPT ![w] = SlotById(doctorSlotId)]
          /\ Start(w, "c_begin")
          /\ UNCHANGED <<txn, conn>>

\* authorizeRoles("patient"), the doctorSlotId check and the pre-check SELECT
ClaimRead(w, u, doctorSlotId) ==
  /\ Accept(w, "claim", u, doctorSlotId)
  /\ UNCHANGED <<doctor_slots, appointments, nextSlotId, nextApptId>>
  /\ IF ~authorizeRoles({"patient"}, u)
       THEN Respond(w, Reply(403, "Access denied: insufficient role", {}))
     ELSE IF doctorSlotId = 0
       THEN Respond(w, Reply(400, "doctorSlotId is required", {}))
     ELSE IF SlotById(doctorSlotId) = {}
       THEN Respond(w, Reply(404, "Slot not found", {}))
     ELSE IF \E slot \in SlotById(doctorSlotId) : slot.is_booked = 1
       THEN Respond(w, Reply(409, "Slot already booked", {}))
     ELSE /\ snap' = [snap EXCEPT ![w] = SlotById(doctorSlotId)]
          /\ Start(w, "c_begin")
          /\ UNCHANGED <<txn, conn>>

\* pool.getConnection() and conn.beginTransaction()
ClaimBegin(w) ==
  /\ pc[w] = "c_begin"
  /\ conn' = conn \cup {w}
  /\ Goto(w, "c_update")
  /\ UNCHANGED <<doctor_slots, appointments, nextSlotId, nextApptId, req, snap, txn>>

\* variant of ClaimUpdate: the UPDATE lacks "AND is_booked = 0"
ClaimUpdateUnconditional(w) ==
  /\ pc[w] = "c_update"
  /\ WaitsFor(w) = {}
  /\ UNCHANGED <<doctor_slots, appointments, nextSlotId, nextApptId, req>>
  /\ IF SlotById(req[w].arg) # {}
       THEN /\ txn' = [txn EXCEPT ![w].slot = req[w].arg, ![w].is_booked = 1]
            /\ Goto(w, "c_insert")
            /\ UNCHANGED <<snap, conn>>
       ELSE Respond(w, Reply(409, "Slot already booked (race)", {}))

\* variant of ClaimUpdate: no "if (upd.affectedRows === 0)" check; the
\* handler goes on to the INSERT whatever the UPDATE matched
ClaimUpdateNoCheck(w) ==
  /\ pc[w] = "c_update"
  /\ WaitsFor(w) = {}
  /\ UNCHANGED <<doctor_slots, appointments, nextSlotId, nextApptId, req>>
  /\ txn' = IF \E s \in SlotById(req[w].arg) : s.is_booked = 0
              THEN [txn EXCEPT ![w].slot = req[w].arg, ![w].is_booked = 1]
              ELSE txn
  /\ Goto(w, "c_insert")
  /\ UNCHANGED <<snap, conn>>

\* variant of ClaimUpdate: the lost-race branch rolls back and returns
\* without sending a response
ClaimUpdateSilent(w) ==
  /\ pc[w] = "c_update"
  /\ WaitsFor(w) = {}
  /\ UNCHANGED <<doctor_slots, appointments, nextSlotId, nextApptId, req>>
  /\ IF \E s \in SlotById(req[w].arg) : s.is_booked = 0
       THEN /\ txn' = [txn EXCEPT ![w].slot = req[w].arg, ![w].is_booked = 1]
            /\ Goto(w, "c_insert")
            /\ UNCHANGED <<snap, conn>>
       ELSE /\ pc' = [pc EXCEPT ![w] = "idle"]
            /\ snap' = [snap EXCEPT ![w] = {}]
            /\ txn' = [txn EXCEPT ![w] = NoTxn]
            /\ conn' = conn \ {w}
            /\ UNCHANGED <<resp, accounts>>

\* UPDATE doctor_slots SET is_booked = 1 WHERE id = ? AND is_booked = 0;
\* with affectedRows = 0 the handler rolls back and responds 409
ClaimUpdate(w) ==
  /\ pc[w] = "c_update"
  /\ WaitsFor(w) = {}
  /\ UNCHANGED <<doctor_slots, appointments, nextSlotId, nextApptId, req>>
  /\ IF \E s \in SlotById(req[w].arg) : s.is_booked = 0
       THEN /\ txn' = [txn EXCEPT ![w].slot = req[w].arg, ![w].is_booked = 1]
            /\ Goto(w, "c_insert")
            /\ UNCHANGED <<snap, conn>>
       ELSE Respond(w, Reply(409, "Slot already booked (race)", {}))

\* variant of ClaimInsert: appointments has no unique key on
\* (doctor_user_id, scheduled_at), the INSERT never waits and never throws
ClaimInsertNoKey(w) ==
  /\ pc[w] = "c_insert"
  /\ UNCHANGED <<doctor_slots, appointments, req, nextSlotId>>
  /\ nextApptId <= MaxApptId
  /\ LET slot == CHOOSE s \in snap[w] : TRUE IN
       txn' = [txn EXCEPT ![w].ins =
                 {[id |-> nextApptId, patient_user_id |-> req[w].user,
                   doctor_user_id |-> slot.doctor_user_id,
                   scheduled_at |-> slot.slot_at, status |-> "booked"]}]
  /\ nextApptId' = nextApptId + 1
  /\ Goto(w, "c_commit")
  /\ UNCHANGED <<snap, conn>>

\* INSERT INTO appointments (...) VALUES (patientId, doctorId, scheduledAt,
\* 'booked', NOW()); a committed row with the same (doctor_user_id,
\* scheduled_at) makes the statement throw (ux_appt_doctor_time): the catch
\* block rolls back and responds 500
ClaimInsert(w) ==
  /\ pc[w] = "c_insert"
  /\ WaitsFor(w) = {}
  /\ UNCHANGED <<doctor_slots, appointments, req>>
  /\ LET slot == CHOOSE s \in snap[w] : TRUE IN
       IF ApptByKey(slot.doctor_user_id, slot.slot_at) # {}
         THEN /\ Respond(w, Reply(500, "Failed to book slot", {}))
              /\ UNCHANGED nextApptId
         ELSE /\ nextApptId <= MaxApptId
              /\ txn' = [txn EXCEPT ![w].ins =
                           {[id |-> nextApptId, patient_user_id |-> req[w].user,
                             doctor_user_id |-> slot.doctor_user_id,
                             scheduled_at |-> slot.slot_at, status |-> "booked"]}]
              /\ nextApptId' = nextApptId + 1
              /\ Goto(w, "c_commit")
              /\ UNCHANGED <<snap, conn>>
  /\ UNCHANGED nextSlotId

\* the INSERT waits for a lock and is chosen as the victim of a wait cycle:
\* the statement throws, the catch block rolls back and responds 500
ClaimInsertDeadlock(w) ==
  /\ pc[w] = "c_insert"
  /\ Deadlocked(w)
  /\ Respond(w, Reply(500, "Failed to book slot", {}))
  /\ UNCHANGED <<doctor_slots, appointments, nextSlotId, nextApptId, req>>

\* variant of ClaimCommit: the appointment row is not part of what the
\* COMMIT makes durable
ClaimCommitSlotOnly(w) ==
  /\ pc[w] = "c_commit"
  /\ doctor_slots' = CommittedSlots(w)
  /\ UNCHANGED appointments
  /\ LET slot == CHOOSE s \in snap[w] : TRUE
         insertRes == CHOOSE a \in txn[w].ins : TRUE
     IN  Respond(w, Reply(201, "",
           {[id |-> insertRes.id, patient_user_id |-> req[w].user,
             doctor_user_id |-> slot.doctor_user_id,
             scheduled_at |-> slot.slot_at, slot_id |-> req[w].arg]}))
  /\ UNCHANGED <<nextSlotId, nextApptId, req>>

\* conn.commit() and the 201 response
ClaimCommit(w) ==
  /\ pc[w] = "c_commit"
  /\ doctor_slots' = CommittedSlots(w)
  /\ appointments' = CommittedAppts(w)
  /\ LET slot == CHOOSE s \in snap[w] : TRUE
         insertRes == CHOOSE a \in txn[w].ins : TRUE
     IN  Respond(w, Reply(201, "",
           {[id |-> insertRes.id, patient_user_id |-> req[w].user,
             doctor_user_id |-> slot.doctor_user_id,
             scheduled_at |-> slot.slot_at, slot_id |-> req[w].arg]}))
  /\ UNCHANGED <<nextSlotId, nextApptId, req>>

\* ------------------------------------------------ DELETE /appointments/:id

ApptIdArgs == 1..MaxApptId

\* variant of CancelRead: no authorization check
CancelReadUnchecked(w, u, apptId) ==
  /\ Accept(w, "cancel", u, apptId)
  /\ UNCHANGED <<doctor_slots, appointments, nextSlotId, nextApptId>>
  /\ IF ApptById(apptId) = {}
       THEN Respond(w, Reply(404, "Appointment not found", {}))
       ELSE /\ snap' = [snap EXCEPT ![w] = ApptById(apptId)]
            /\ Start(w, "x_begin")
            /\ UNCHANGED <<txn, conn>>

\* variant of CancelRead: no "if (!appointment)" check; reading a field of
\* the missing row throws and the outer catch block responds 500
CancelReadNoLookup(w, u, apptId) ==
  /\ Accept(w, "cancel", u, apptId)
  /\ UNCHANGED <<doctor_slots, appointments, nextSlotId, nextApptId>>
  /\ IF ApptById(apptId) = {}
       THEN Respond(w, Reply(500, "Server error", {}))
     ELSE LET appointment == CHOOSE a \in ApptById(apptId) : TRUE
              isPatient == appointment.patient_user_id = u /\ role(u) = "patient"
              isDoctor == appointment.doctor_user_id = u /\ role(u) = "doctor"
          IN  IF ~isPatient /\ ~isDoctor
                THEN Respond(w, Reply(403, "Not authorized to cancel this appointment", {}))
                ELSE /\ snap' = [snap EXCEPT ![w] = {appointment}]
                     /\ Start(w, "x_begin")
                     /\ UNCHANGED <<txn, conn>>

\* the SELECT of the appointment and the authorization check
CancelRead(w, u, apptId) ==
  /\ Accept(w, "cancel", u, apptId)
  /\ UNCHANGED <<doctor_slots, appointments, nextSlotId, nextApptId>>
  /\ IF ApptById(apptId) = {}
       THEN Respond(w, Reply(404, "Appointment not found", {}))
     ELSE LET appointment == CHOOSE a \in ApptById(apptId) : TRUE
              isPatient == appointment.patient_user_id = u /\ role(u) = "patient"
              isDoctor == appointment.doctor_user_id = u /\ role(u) = "doctor"
          IN  IF ~isPatient /\ ~isDoctor
                THEN Respond(w, Reply(403, "Not authorized to cancel this appointment", {}))
                ELSE /\ snap' = [snap EXCEPT ![w] = {appointment}]
                     /\ Start(w, "x_begin")
                     /\ UNCHANGED <<txn, conn>>

\* pool.getConnection() and conn.beginTransaction()
CancelBegin(w) ==
  /\ pc[w] = "x_begin"
  /\ conn' = conn \cup {w}
  /\ Goto(w, "x_delete")
  /\ UNCHANGED <<doctor_slots, appointments, nextSlotId, nextApptId, req, snap, txn>>

\* DELETE FROM appointments WHERE id = ?
CancelDelete(w) ==
  /\ pc[w] = "x_delete"
  /\ WaitsFor(w) = {}
  /\ txn' = [txn EXCEPT ![w].appt =
               IF ApptById(req[w].arg) # {} THEN req[w].arg ELSE 0]
  /\ Goto(w, "x_release")
  /\ UNCHANGED <<doctor_slots, appointments, nextSlotId, nextApptId, req, snap, conn>>

\* variant of CancelRelease: the cancel does not free the slot
CancelReleaseSkipped(w) ==
  /\ pc[w] = "x_release"
  /\ Goto(w, "x_commit")
  /\ UNCHANGED <<doctor_slots, appointments, nextSlotId, nextApptId, req, snap, conn, txn>>

\* variant of CancelRelease: an UPDATE that matches no row is treated as a
\* failure, the cancel is rolled back and answered 500
CancelReleaseStrict(w) ==
  /\ pc[w] = "x_release"
  /\ WaitsFor(w) = {}
  /\ UNCHANGED <<doctor_slots, appointments, nextSlotId, nextApptId, req>>
  /\ LET appointment == CHOOSE a \in snap[w] : TRUE
         rows == SlotByKey(appointment.doctor_user_id, appointment.scheduled_at)
     IN  IF rows = {}
           THEN Respond(w, Reply(500, "Failed to cancel appointment", {}))
           ELSE /\ txn' = [txn EXCEPT ![w].slot = (CHOOSE s \in rows : TRUE).id,
                                      ![w].is_booked = 0]
                /\ Goto(w, "x_commit")
                /\ UNCHANGED <<snap, conn>>

\* UPDATE doctor_slots SET is_booked = 0 WHERE doctor_user_id = ? AND slot_at = ?
\* with the doctor_user_id and scheduled_at of the appointment read before
CancelRelease(w) ==
  /\ pc[w] = "x_release"
  /\ WaitsFor(w) = {}
  /\ LET appointment == CHOOSE a \in snap[w] : TRUE
         rows == SlotByKey(appointment.doctor_user_id, appointment.scheduled_at)
     IN  txn' = [txn EXCEPT ![w].slot =
                   IF rows = {} THEN 0 ELSE (CHOOSE s \in rows : TRUE).id,
                 ![w].is_booked = 0]
  /\ Goto(w, "x_commit")
  /\ UNCHANGED <<doctor_slots, appointments, nextSlotId, nextApptId, req, snap, conn>>

\* the UPDATE waits for a lock and is chosen as the victim of a wait cycle
CancelReleaseDeadlock(w) ==
  /\ pc[w] = "x_release"
  /\ Deadlocked(w)
  /\ Respond(w, Reply(500, "Failed to cancel appointment", {}))
  /\ UNCHANGED <<doctor_slots, appointments, nextSlotId, nextApptId, req>>

\* conn.commit() and the response
CancelCommit(w) ==
  /\ pc[w] = "x_commit"
  /\ doctor_slots' = CommittedSlots(w)
  /\ appointments' = CommittedAppts(w)
  /\ Respond(w, Reply(200, "Appointment canceled", {}))
  /\ UNCHANGED <<nextSlotId, nextApptId, req>>

\* ------------------------------------------------ DELETE /doctor/slots/:id

\* variant of DeleteSlotRead: no is_booked check
DeleteSlotReadUnchecked(w, u, slotId) ==
  /\ Accept(w, "delslot", u, slotId)
  /\ UNCHANGED <<doctor_slots, appointments, nextSlotId, nextApptId>>
  /\ IF ~authorizeRoles({"doctor"}, u)
       THEN Respond(w, Reply(403, "Access denied: insufficient role", {}))
     ELSE IF {s \in SlotById(slotId) : s.doctor_user_id = u} = {}
       THEN Respond(w, Reply(404, "Slot not found", {}))
     ELSE /\ Start(w, "d_delete")
          /\ UNCHANGED <<snap, txn, conn>>

\* variant of DeleteSlotRead: the SELECT lacks "AND doctor_user_id = ?"
DeleteSlotReadAnyOwner(w, u, slotId) ==
  /\ Accept(w, "delslot", u, slotId)
  /\ UNCHANGED <<doctor_slots, appointments, nextSlotId, nextApptId>>
  /\ IF ~authorizeRoles({"doctor"}, u)
       THEN Respond(w, Reply(403, "Access denied: insufficient role", {}))
     ELSE LET rows == SlotById(slotId) IN
       IF rows = {}
         THEN Respond(w, Reply(404, "Slot not found", {}))
       ELSE IF \E slot \in rows : slot.is_booked = 1
         THEN Respond(w, Reply(409, "Cannot delete a booked slot", {}))
       ELSE /\ Start(w, "d_delete")
            /\ UNCHANGED <<snap, txn, conn>>

\* authorizeRoles("doctor") and the SELECT of the doctor's own slot
DeleteSlotRead(w, u, slotId) ==
  /\ Accept(w, "delslot", u, slotId)
  /\ UNCHANGED <<doctor_slots, appointments, nextSlotId, nextApptId>>
  /\ IF ~authorizeRoles({"doctor"}, u)
       THEN Respond(w, Reply(403, "Access denied: insufficient role", {}))
     ELSE LET rows == {s \in SlotById(slotId) : s.doctor_user_id = u} IN
       IF rows = {}
         THEN Respond(w, Reply(404, "Slot not found", {}))
       ELSE IF \E slot \in rows : slot.is_booked = 1
         THEN Respond(w, Reply(409, "Cannot delete a booked slot", {}))
       ELSE /\ Start(w, "d_delete")
            /\ UNCHANGED <<snap, txn, conn>>

\* DELETE FROM doctor_slots WHERE id = ?
DeleteSlotDelete(w) ==
  /\ pc[w] = "d_delete"
  /\ WaitsFor(w) = {}
  /\ doctor_slots' = doctor_slots \ SlotById(req[w].arg)
  /\ Respond(w, Reply(200, "Slot deleted", {}))
  /\ UNCHANGED <<appointments, nextSlotId, nextApptId, req>>

\* ------------------------------------------------------------ listings

\* ORDER BY: the rows of a result set, in an order that agrees with the
\* pairs of inOrder; rows with equal sort keys come in either order
OrderBy(rows, inOrder) ==
  {q \in [1..Cardinality(rows) -> rows] :
     \A i, j \in 1..Cardinality(rows) :
       i < j => q[i] # q[j] /\ <<q[i], q[j]>> \in inOrder}

SlotAsc(rows) ==
  {p \in rows \X rows : Rank(p[1].slot_at) <= Rank(p[2].slot_at)}
ApptDesc(rows) ==
  {p \in rows \X rows : Rank(p[1].scheduled_at) >= Rank(p[2].scheduled_at)}

\* SELECT id AS slot_id, slot_at, is_booked
SlotRow(s) == [slot_id |-> s.id, slot_at |-> s.slot_at, is_booked |-> s.is_booked]

\* WHERE doctor_user_id = ? AND slot_at >= NOW()
FutureSlots(doctorId, now) ==
  {SlotRow(s) : s \in {x \in doctor_slots :
                         x.doctor_user_id = doctorId /\ Rank(x.slot_at) >= Rank(now)}}

\* the :username values: the phone number of a doctor, or of no doctor
Usernames == Doctors \cup {"nobody"}
Clock == {Instants[i] : i \in DOMAIN Instants}

\* variant of ListSlots: the query lacks "AND slot_at >= NOW()"
ListSlotsAnyTime(w, u, username, now) ==
  /\ Accept(w, "slots", u, [username |-> username, now |-> now])
  /\ UNCHANGED <<doctor_slots, appointments, nextSlotId, nextApptId>>
  /\ IF ~authorizeRoles({"patient"}, u)
       THEN Respond(w, Reply(403, "Access denied: insufficient role", {}))
     ELSE IF username \notin Doctors
       THEN Respond(w, Reply(500, "Failed to fetch doctor slots", {}))
     ELSE \E rows \in OrderBy(FutureSlots(username, Instants[1]),
                            SlotAsc(FutureSlots(username, Instants[1]))) :
            Respond(w, Reply(200, "", {[rows |-> rows]}))

\* GET /doctors/:username/slots; now is the value of NOW() when the query
\* runs.  The doctor is looked up by phone_number; when no doctor has it the
\* handler queries the column users.username, which the schema does not
\* have: the query throws and the catch block responds 500
ListSlots(w, u, username, now) ==
  /\ Accept(w, "slots", u, [username |-> username, now |-> now])
  /\ UNCHANGED <<doctor_slots, appointments, nextSlotId, nextApptId>>
  /\ IF ~authorizeRoles({"patient"}, u)
       THEN Respond(w, Reply(403, "Access denied: insufficient role", {}))
     ELSE IF username \notin Doctors
       THEN Respond(w, Reply(500, "Failed to fetch doctor slots", {}))
     ELSE \E rows \in OrderBy(FutureSlots(username, now),
                            SlotAsc(FutureSlots(username, now))) :
            Respond(w, Reply(200, "", {[rows |-> rows]}))

\* GET /doctor/slots: all the slots of the calling doctor, earliest first
ListOwnSlots(w, u) ==
  /\ Accept(w, "own", u, 0)
  /\ UNCHANGED <<doctor_slots, appointments, nextSlotId, nextApptId>>
  /\ IF ~authorizeRoles({"doctor"}, u)
       THEN Respond(w, Reply(403, "Access denied: insufficient role", {}))
     ELSE LET rows == {SlotRow(s) : s \in {x \in doctor_slots : x.doctor_user_id = u}}
          IN  \E q \in OrderBy(rows, SlotAsc(rows)) :
                Respond(w, Reply(200, "", {[rows |-> q]}))

\* WHERE a.doctor_user_id = ? / WHERE a.patient_user_id = ?
DoctorAppointments(u) == {a \in appointments : a.doctor_user_id = u}
PatientAppointments(u) == {a \in appointments : a.patient_user_id = u}

\* GET /appointments: the doctor's appointments, latest first
ListAppointments(w, u) ==
  /\ Accept(w, "appts", u, 0)
  /\ UNCHANGED <<doctor_slots, appointments, nextSlotId, nextApptId>>
  /\ IF ~authorizeRoles({"doctor"}, u)
       THEN Respond(w, Reply(403, "Access denied: insufficient role", {}))
     ELSE \E rows \in OrderBy(DoctorAppointments(u),
                            ApptDesc(DoctorAppointments(u))) :
            Respond(w, Reply(200, "", {[rows |-> rows]}))

\* GET /appointments/me: the patient's appointments, latest first
ListMyAppointments(w, u) ==
  /\ Accept(w, "mine", u, 0)
  /\ UNCHANGED <<doctor_slots, appointments, nextSlotId, nextApptId>>
  /\ IF ~authorizeRoles({"patient"}, u)
       THEN Respond(w, Reply(403, "Access denied: insufficient role", {}))
     ELSE \E rows \in OrderBy(PatientAppointments(u),
                            ApptDesc(PatientAppointments(u))) :
            Respond(w, Reply(200, "", {[rows |-> rows]}))

\* ------------------------------------------------------------------- Next

\* the statements of the handlers that are past their first SELECT
Continue(w) ==
  \/ ClaimBegin(w)
  \/ ClaimUpdate(w)
  \/ ClaimInsert(w)
  \/ ClaimCommit(w)
  \/ CancelBegin(w)
  \/ CancelDelete(w)
  \/ CancelRelease(w)
  \/ CancelCommit(w)
  \/ DeleteSlotDelete(w)

\* requests that get past the role and input checks of their handler
\* (the overlapping requests all publish the same timestamp, the first one)
First == CHOOSE t \in Times : \A x \in Times : Rank(t) <= Rank(x)
GoodBodies == {[isArray |-> TRUE, slots |-> <<First>>]}

\* two overlapping requests on the slots of one doctor
Pair == {1, 2}
Doctor == "d1"

Next ==
  \E w \in Pair :
    \/ \E body \in GoodBodies : PublishSlots(w, Doctor, body)
    \/ \E u \in Patients, id \in 1..MaxSlotId : ClaimRead(w, u, id)
    \/ \E u \in Patients \cup {Doctor}, id \in ApptIdArgs : CancelRead(w, u, id)
    \/ \E id \in 1..MaxSlotId : DeleteSlotRead(w, Doctor, id)
    \/ Continue(w)
    \/ ClaimInsertDeadlock(w)
    \/ CancelReleaseDeadlock(w)

Spec == Init /\ [][Next]_vars

\* one request at a time, with every caller and every request body
NextSeq ==
  \E w \in {1} :
    \/ \E u \in Users, body \in PublishBodies : PublishSlots(w, u, body)
    \/ \E u \in Users, id \in SlotIdArgs : ClaimRead(w, u, id)
    \/ \E u \in Users, id \in ApptIdArgs : CancelRead(w, u, id)
    \/ \E u \in Users, id \in 1..MaxSlotId : DeleteSlotRead(w, u, id)
    \/ Continue(w)

SpecSeq == Init /\ [][NextSeq]_vars

\* patients claiming published slots concurrently, one claim per worker
NextRace ==
  \E w \in Workers :
    \/ /\ req[w].op # "claim"
       /\ \E u \in Doctors, body \in GoodBodies : PublishSlots(w, u, body)
    \/ /\ req[w].op # "claim"
       /\ \E u \in Patients, s \in doctor_slots : ClaimRead(w, u, s.id)
    \/ ClaimBegin(w)
    \/ ClaimUpdate(w)
    \/ ClaimInsert(w)
    \/ ClaimCommit(w)

SpecRace == Init /\ [][NextRace]_vars

\* --------------------------------------------------------- store failures

\* variant of ClaimFails: the catch block does not roll back, and the
\* pending writes of the connection get committed
ClaimFailsNoRollback(w) ==
  /\ pc[w] \in {"c_update", "c_insert", "c_commit"}
  /\ doctor_slots' = CommittedSlots(w)
  /\ appointments' = CommittedAppts(w)
  /\ Respond(w, Reply(500, "Failed to book slot", {}))
  /\ UNCHANGED <<nextSlotId, nextApptId, req>>

\* a statement of the claim transaction (the UPDATE, the INSERT or the
\* COMMIT) throws: catch (txErr) rolls back and responds 500
ClaimFails(w) ==
  /\ pc[w] \in {"c_update", "c_insert", "c_commit"}
  /\ Respond(w, Reply(500, "Failed to book slot", {}))
  /\ UNCHANGED <<doctor_slots, appointments, nextSlotId, nextApptId, req>>

\* a statement of the cancel transaction (the DELETE, the UPDATE or the
\* COMMIT) throws: catch (txErr) rolls back and responds 500
CancelFails(w) ==
  /\ pc[w] \in {"x_delete", "x_release", "x_commit"}
  /\ Respond(w, Reply(500, "Failed to cancel appointment", {}))
  /\ UNCHANGED <<doctor_slots, appointments, nextSlotId, nextApptId, req>>

\* overlapping requests with store failures
NextFault ==
  \/ Next
  \/ \E w \in Pair : ClaimFails(w)
  \/ \E w \in Pair : CancelFails(w)

SpecFault == Init /\ [][NextFault]_vars

\* overlapping claim and cancel requests, no slot deletion
NextBooking ==
  \E w \in Pair :
    \/ \E body \in GoodBodies : PublishSlots(w, Doctor, body)
    \/ \E u \in Patients, id \in 1..MaxSlotId : ClaimRead(w, u, id)
    \/ \E u \in Patients \cup {Doctor}, id \in ApptIdArgs : CancelRead(w, u, id)
    \/ ClaimBegin(w)
    \/ ClaimUpdate(w)
    \/ ClaimInsert(w)
    \/ ClaimInsertDeadlock(w)
    \/ ClaimCommit(w)
    \/ CancelBegin(w)
    \/ CancelDelete(w)
    \/ CancelRelease(w)
    \/ CancelReleaseDeadlock(w)
    \/ CancelCommit(w)

SpecBooking == Init /\ [][NextBooking]_vars

\* the requests of Next, each started when no other request is in flight
Quiet(w) == \A q \in Workers \ {w} : pc[q] = "idle"

NextTurns ==
  \E w \in Pair :
    \/ Quiet(w) /\ \E body \in GoodBodies : PublishSlots(w, Doctor, body)
    \/ Quiet(w) /\ \E u \in Patients, id \in 1..MaxSlotId : ClaimRead(w, u, id)
    \/ Quiet(w) /\ \E u \in Patients \cup {Doctor}, id \in ApptIdArgs : CancelRead(w, u, id)
    \/ Quiet(w) /\ \E id \in 1..MaxSlotId : DeleteSlotRead(w, Doctor, id)
    \/ Continue(w)

SpecTurns == Init /\ [][NextTurns]_vars

\* one request at a time: slots are published, claimed and deleted, and
\* patients list the slots of a doctor at any time of the clock
ValidBodies ==
  {b \in PublishBodies :
     /\ b.isArray /\ Len(b.slots) > 0
     /\ \A i \in 1..Len(b.slots) : validateDateTimeSQL(b.slots[i])}

NextList ==
  \E w \in {1} :
    \/ \E u \in Doctors, body \in ValidBodies : PublishSlots(w, u, body)
    \/ \E u \in Patients, id \in 1..MaxSlotId : ClaimRead(w, u, id)
    \/ \E u \in Doctors, id \in 1..MaxSlotId : DeleteSlotRead(w, u, id)
    \/ \E u \in Users, username \in Usernames, now \in Clock :
         ListSlots(w, u, username, now)
    \/ ClaimBegin(w)
    \/ ClaimUpdate(w)
    \/ ClaimInsert(w)
    \/ ClaimCommit(w)
    \/ DeleteSlotDelete(w)

SpecList == Init /\ [][NextList]_vars

\* the requests of a visit, each started when no other request is in
\* flight: a slot is published, claimed and canceled, and the doctor and the
\* patients list their appointments
NextVisit ==
  \E w \in Pair :
    \/ Quiet(w) /\ \E body \in GoodBodies : PublishSlots(w, Doctor, body)
    \/ Quiet(w) /\ \E u \in Patients, id \in 1..MaxSlotId : ClaimRead(w, u, id)
    \/ Quiet(w) /\ \E u \in Patients, id \in ApptIdArgs : CancelRead(w, u, id)
    \/ Quiet(w) /\ ListAppointments(w, Doctor)
    \/ Quiet(w) /\ \E u \in Patients : ListMyAppointments(w, u)
    \/ ClaimBegin(w)
    \/ ClaimUpdate(w)
    \/ ClaimInsert(w)
    \/ ClaimCommit(w)
    \/ CancelBegin(w)
    \/ CancelDelete(w)
    \/ CancelRelease(w)
    \/ CancelCommit(w)

SpecVisit == Init /\ [][NextVisit]_vars

\* the requests of Next, and a patient who lists the doctor's slots when no
\* request is in flight and then claims a slot the listing shows as free:
\* from the listing to the response of the claim no other request runs
Visitor == "p2"
Visiting(w) ==
  /\ req[w].user = Visitor
  /\ \/ req[w].op = "slots" /\ pc[w] = "idle"
     \/ req[w].op = "claim" /\ pc[w] # "idle"
Undisturbed(w) == \A q \in Workers \ {w} : ~Visiting(q)
ListedFree(w) ==
  {row.slot_id : row \in UNION {{d.rows[i] : i \in 1..Len(d.rows)} :
                                  d \in UNION {r.data : r \in resp[w]}} \cap
                          [slot_id : 1..MaxSlotId, slot_at : Times, is_booked : {0}]}

NextSolo ==
  \E w \in Pair :
    \/ Undisturbed(w) /\ \E body \in GoodBodies : PublishSlots(w, Doctor, body)
    \/ Undisturbed(w) /\
         \E u \in Patients \ {Visitor}, id \in 1..MaxSlotId : ClaimRead(w, u, id)
    \/ Undisturbed(w) /\
         \E u \in Patients \cup {Doctor}, id \in ApptIdArgs : CancelRead(w, u, id)
    \/ Undisturbed(w) /\ \E id \in 1..MaxSlotId : DeleteSlotRead(w, Doctor, id)
    \/ Quiet(w) /\ Undisturbed(w) /\
         \E now \in Clock : ListSlots(w, Visitor, Doctor, now)
    \/ Visiting(w) /\ Undisturbed(w) /\
         \E id \in ListedFree(w) : ClaimRead(w, Visitor, id)
    \/ Continue(w)
    \/ ClaimInsertDeadlock(w)
    \/ CancelReleaseDeadlock(w)

SpecSolo == Init /\ [][NextSolo]_vars

\* the overlapping requests of Next and the listings
NextFrame ==
  \/ Next
  \/ \E w \in Pair :
       \/ \E now \in Clock : ListSlots(w, Visitor, Doctor, now)
       \/ ListOwnSlots(w, Doctor)
       \/ ListAppointments(w, Doctor)
       \/ ListMyAppointments(w, Visitor)

SpecFrame == Init /\ [][NextFrame]_vars

\* overlapping requests on two slots of one doctor: the slots are published
\* one by one, claimed, deleted, and the appointments are cancelled
OneSlotBodies == {[isArray |-> TRUE, slots |-> <<t>>] : t \in Times}

NextTwoSlots ==
  \E w \in Pair :
    \/ \E body \in OneSlotBodies : PublishSlots(w, Doctor, body)
    \/ \E u \in Patients, id \in 1..MaxSlotId : ClaimRead(w, u, id)
    \/ \E u \in Patients, id \in ApptIdArgs : CancelRead(w, u, id)
    \/ \E id \in 1..MaxSlotId : DeleteSlotRead(w, Doctor, id)
    \/ Continue(w)
    \/ ClaimInsertDeadlock(w)
    \/ CancelReleaseDeadlock(w)

SpecTwoSlots == Init /\ [][NextTwoSlots]_vars

\* a statement waits for a row lock longer than innodb_lock_wait_timeout:
\* it throws, and the catch block of its handler responds 500 (after the
\* rollback, in a transaction)
LockWaitTimeout(w) ==
  /\ WaitsFor(w) # {}
  /\ Respond(w, Reply(500,
        CASE req[w].op = "claim" -> "Failed to book slot"
          [] req[w].op = "cancel" -> "Failed to cancel appointment"
          [] OTHER -> "Failed to delete slot", {}))
  /\ UNCHANGED <<doctor_slots, appointments, nextSlotId, nextApptId, req>>

\* the overlapping requests of Next; a claim is started when an
\* appointment id is left for it
NextLive ==
  \E w \in Pair :
    \/ \E body \in GoodBodies : PublishSlots(w, Doctor, body)
    \/ /\ nextApptId + Cardinality({q \in Workers :
                          pc[q] \in {"c_begin", "c_update", "c_insert"}}) <= MaxApptId
       /\ \E u \in Patients, id \in 1..MaxSlotId : ClaimRead(w, u, id)
    \/ \E u \in Patients \cup {Doctor}, id \in ApptIdArgs : CancelRead(w, u, id)
    \/ \E id \in 1..MaxSlotId : DeleteSlotRead(w, Doctor, id)
    \/ Continue(w)
    \/ ClaimInsertDeadlock(w)
    \/ CancelReleaseDeadlock(w)
    \/ LockWaitTimeout(w)

\* the event loop runs every continuation of a handler, and the store
\* answers every statement: with its result, or with an error when the
\* statement is the victim of a wait cycle or has waited too long
SpecLive ==
  /\ Init /\ [][NextLive]_vars
  /\ \A w \in Pair :
       WF_vars(\/ Continue(w)
               \/ ClaimInsertDeadlock(w)
               \/ CancelReleaseDeadlock(w)
               \/ LockWaitTimeout(w))

\* ----------------------------------------------------------------- claims
\* ----------------------------------------------------------------- claims

Status(w) == {r.status : r \in resp[w]}
Finished(w, op) == req[w].op = op /\ pc[w] = "idle"

\* the claim requests issued for slot id, and those that have responded
ClaimsOf(id) == {w \in Workers : req[w].op = "claim" /\ req[w].arg = id}
Created(id) == {w \in ClaimsOf(id) : Status(w) = {201}}
Conflicted(id) == {w \in ClaimsOf(id) : Status(w) = {409}}

\* C1: when N patients claim the same free slot concurrently, every request
\* that has responded got 201 or 409, at most one got 201, and once all N
\* have responded exactly one got 201 and the other N-1 got 409.
C1_ExactlyOneClaimWins ==
  \A s \in doctor_slots :
    /\ \A w \in ClaimsOf(s.id) : pc[w] = "idle" => Status(w) \subseteq {201, 409}
    /\ Cardinality(Created(s.id)) <= 1
    /\ (ClaimsOf(s.id) # {} /\ \A w \in ClaimsOf(s.id) : pc[w] = "idle")
         => /\ Cardinality(Created(s.id)) = 1
            /\ Conflicted(s.id) = ClaimsOf(s.id) \ Created(s.id)

\* two distinct patients raced for one slot past the pre-check: one was
\* answered 201, the other lost at the conditional UPDATE
C1_Witness ==
  \E s \in doctor_slots : \E w1, w2 \in ClaimsOf(s.id) :
    /\ req[w1].user # req[w2].user
    /\ Status(w1) = {201}
    /\ \E r \in resp[w2] : r.status = 409 /\ r.message = "Slot already booked (race)"

\* C2: with requests executed one after another, a slot has is_booked = 1
\* if and only if exactly one appointment has the slot's doctor and time.
C2_BookedIffOneAppointment ==
  \A s \in doctor_slots :
    s.is_booked = 1 <=> Cardinality(ApptByKey(s.doctor_user_id, s.slot_at)) = 1

\* a cancel has just succeeded while another slot is still booked
C2_Witness ==
  /\ \E w \in Workers : Finished(w, "cancel") /\ Status(w) = {200}
  /\ \E s \in doctor_slots : s.is_booked = 1
  /\ \E s \in doctor_slots : s.is_booked = 0

\* C3: under any interleaving of claim and cancel requests, no committed
\* state has a booked slot without a matching appointment, or an
\* appointment whose matching slot is not booked.
C3_NoHalfBooking ==
  /\ \A s \in doctor_slots :
       s.is_booked = 1 => ApptByKey(s.doctor_user_id, s.slot_at) # {}
  /\ \A a \in appointments :
       \A s \in SlotByKey(a.doctor_user_id, a.scheduled_at) : s.is_booked = 1

\* the caller may cancel the appointment: its patient with role patient or
\* its doctor with role doctor
MayCancel(u, a) ==
  \/ a.patient_user_id = u /\ role(u) = "patient"
  \/ a.doctor_user_id = u /\ role(u) = "doctor"

\* C4: with requests executed one after another, a successful cancel leaves
\* the appointment deleted and its slot free, and every claim of a free slot
\* then succeeds and creates an appointment for the caller with the slot's
\* doctor and time.
C4_CancelThenClaimAgain ==
  [][\A w \in Workers :
       /\ (pc[w] = "x_commit" /\ pc'[w] = "idle" /\ Status(w)' = {200}) =>
            \A a \in snap[w] :
              /\ ApptById(a.id)' = {}
              /\ \A s \in SlotByKey(a.doctor_user_id, a.scheduled_at)' : s.is_booked = 0
       /\ (req[w].op = "claim" /\ pc[w] # "idle" /\ pc'[w] = "idle") =>
            /\ Status(w)' = {201}
            /\ \A r \in resp'[w] : \A d \in r.data : \A s \in snap[w] :
                 /\ [id |-> d.id, patient_user_id |-> req[w].user,
                     doctor_user_id |-> s.doctor_user_id,
                     scheduled_at |-> s.slot_at, status |-> "booked"] \in appointments'
                 /\ d.id \notin {a.id : a \in appointments}
     ]_vars

\* p1's appointment on the only slot ever published was cancelled by p1 or
\* by the doctor, and p2 then claimed the slot and holds a new appointment
C4_Witness ==
  /\ nextSlotId = 2
  /\ \E w1, w2 \in Workers :
       /\ Finished(w1, "cancel") /\ Status(w1) = {200} /\ req[w1].user \in {"p1", Doctor}
       /\ Finished(w2, "claim") /\ Status(w2) = {201} /\ req[w2].user = "p2"
       /\ req[w1].arg = 1
       /\ appointments = {[id |-> 2, patient_user_id |-> "p2", doctor_user_id |-> Doctor,
                           scheduled_at |-> "t1", status |-> "booked"]}
       /\ \A s \in doctor_slots : s.id = req[w2].arg /\ s.is_booked = 1

\* C5: a delete-slot request of the owning doctor for a booked slot is
\* answered 409 and changes no slot row and no appointment.
C5_BookedSlotNotDeleted ==
  [][\A w \in Workers, u \in Users, id \in 1..MaxSlotId :
       (/\ DeleteSlotRead(w, u, id)
        /\ \E s \in doctor_slots : s.id = id /\ s.doctor_user_id = u /\ s.is_booked = 1)
       => Status(w)' = {409} /\ UNCHANGED db
    ]_vars

C5_Witness ==
  \E w \in Workers :
    /\ Finished(w, "delslot") /\ Status(w) = {409}
    /\ \E s \in doctor_slots :
         s.id = req[w].arg /\ s.doctor_user_id = req[w].user /\ s.is_booked = 1
    /\ appointments # {}

\* C6: every appointment's (doctor, time) still has a slot row: delete-slot
\* never removes a slot whose claim has committed.
C6_SlotKeptWhileBooked ==
  \A a \in appointments : SlotByKey(a.doctor_user_id, a.scheduled_at) # {}

\* C7: a cancel proceeds only for the appointment's patient or doctor; any
\* other caller of an existing appointment is answered 403 and nothing
\* changes.
C7_OnlyOwnersCancel ==
  [][/\ \A w \in Workers, u \in Users, id \in ApptIdArgs :
          (CancelRead(w, u, id) /\ \E a \in ApptById(id) : ~MayCancel(u, a))
          => Status(w)' = {403} /\ UNCHANGED db
     /\ \A w \in Workers :
          (req'[w].op = "cancel" /\ (pc'[w] # "idle" \/ Status(w)' = {200}))
          => \A a \in ApptById(req'[w].arg) : MayCancel(req'[w].user, a)
    ]_vars

C7_Witness ==
  \E w \in Workers :
    /\ Finished(w, "cancel") /\ Status(w) = {403}
    /\ \E a \in ApptById(req[w].arg) :
         /\ ~MayCancel(req[w].user, a)
         /\ \E s \in SlotByKey(a.doctor_user_id, a.scheduled_at) : s.is_booked = 1

\* C8: publishing never creates a second row for a (doctor, time) pair and
\* never fails on a duplicate; existing rows stay as they are and the
\* reported count is the number of rows created.
UniqueSlots ==
  \A s1, s2 \in doctor_slots :
    (s1.doctor_user_id = s2.doctor_user_id /\ s1.slot_at = s2.slot_at) => s1 = s2

C8_IdempotentPublish ==
  [][/\ UniqueSlots'
     /\ \A w \in Workers, u \in Doctors, body \in PublishBodies :
          (PublishSlots(w, u, body) /\ body.isArray /\ body.slots # <<>>
             /\ \A i \in 1..Len(body.slots) : body.slots[i] \in Times)
          => /\ Status(w)' = {201}
             /\ doctor_slots \subseteq doctor_slots'
             /\ \A r \in resp'[w] : \A d \in r.data :
                  d.inserted = Cardinality(doctor_slots' \ doctor_slots)
             /\ \A i \in 1..Len(body.slots) :
                  Cardinality(SlotByKey(u, body.slots[i])') = 1
             /\ (\A i \in 1..Len(body.slots) : SlotByKey(u, body.slots[i]) # {})
                  => UNCHANGED doctor_slots
    ]_vars

\* a publish whose times exist already, one of them twice in the request,
\* reported 0 inserted
C8_Witness ==
  \E w \in Workers :
    /\ Finished(w, "publish")
    /\ req[w].arg.isArray /\ Len(req[w].arg.slots) = 2
    /\ req[w].arg.slots[1] = req[w].arg.slots[2]
    /\ \E r \in resp[w] : r.status = 201 /\ r.data = {[inserted |-> 0]}
    /\ SlotByKey(req[w].user, req[w].arg.slots[1]) # {}

\* C9: a claim whose appointment INSERT fails because an appointment with
\* the same (doctor, time) exists is answered 409.
C9_InsertFailureIsConflict ==
  [][\A w \in Workers :
       (/\ pc[w] = "c_insert" /\ pc'[w] = "idle"
        /\ \E s \in snap[w] : ApptByKey(s.doctor_user_id, s.slot_at) # {})
       => Status(w)' = {409}
    ]_vars

\* C10: a store failure inside the claim or the cancel transaction is
\* answered 500, and the request leaves the committed slots and
\* appointments as they were, with no lock and no pending write behind.
C10_FailureRollsBack ==
  [][\A w \in Workers :
       /\ (ClaimFails(w) \/ CancelFails(w)) =>
            /\ Status(w)' = {500}
            /\ UNCHANGED db
            /\ txn'[w] = NoTxn
       /\ (pc[w] # "idle" /\ Status(w)' = {500}) =>
            /\ UNCHANGED db
            /\ txn'[w] = NoTxn
    ]_vars

\* a claim failed after its UPDATE and INSERT: the slot is free again and
\* no appointment exists
C10_Witness ==
  \E w \in Workers :
    /\ Finished(w, "claim") /\ Status(w) = {500}
    /\ nextApptId = 2
    /\ appointments = {}
    /\ \E s \in doctor_slots : s.id = req[w].arg /\ s.is_booked = 0
    /\ \A q \in Workers : txn[q] = NoTxn

\* C11: a claim of a slot id that no slot has is answered 404 and changes
\* no slot and no appointment.
C11_ClaimOfMissingSlot ==
  [][\A w \in Workers, u \in Patients, id \in 1..MaxSlotId :
       (ClaimRead(w, u, id) /\ SlotById(id) = {})
       => /\ resp'[w] = {Reply(404, "Slot not found", {})}
          /\ pc'[w] = "idle"
          /\ UNCHANGED <<db, nextSlotId, nextApptId>>
    ]_vars

\* a patient claimed an id that no slot has while another slot is on offer
C11_Witness ==
  \E w \in Workers :
    /\ Finished(w, "claim") /\ Status(w) = {404}
    /\ req[w].user \in Patients
    /\ SlotById(req[w].arg) = {}
    /\ \E s \in doctor_slots : s.is_booked = 0

\* C12: a claim of a slot that the pre-check reads as booked is answered
\* 409 without a transaction being opened; the slot stays booked and the
\* appointment that holds it keeps its patient.
C12_ClaimOfBookedSlot ==
  [][\A w \in Workers, u \in Patients, id \in 1..MaxSlotId :
       (ClaimRead(w, u, id) /\ \E s \in SlotById(id) : s.is_booked = 1)
       => /\ resp'[w] = {Reply(409, "Slot already booked", {})}
          /\ pc'[w] = "idle"
          /\ w \notin conn' /\ txn'[w] = NoTxn
          /\ UNCHANGED <<db, nextSlotId, nextApptId>>
    ]_vars

\* a patient claimed the slot another patient holds: 409, and the
\* appointment is still the other patient's
C12_Witness ==
  \E w \in Workers :
    /\ Finished(w, "claim")
    /\ resp[w] = {Reply(409, "Slot already booked", {})}
    /\ \E s \in SlotById(req[w].arg) :
         /\ s.is_booked = 1
         /\ \E a \in ApptByKey(s.doctor_user_id, s.slot_at) :
              a.patient_user_id # req[w].user

\* C15: a cancel of an appointment id that no appointment has is answered
\* 404 and changes no slot and no appointment.
C15_CancelOfMissingAppointment ==
  [][\A w \in Workers, u \in Users, id \in ApptIdArgs :
       (CancelRead(w, u, id) /\ ApptById(id) = {})
       => /\ resp'[w] = {Reply(404, "Appointment not found", {})}
          /\ pc'[w] = "idle"
          /\ UNCHANGED <<db, nextSlotId, nextApptId>>
    ]_vars

\* a cancel of an id that no appointment has, while another appointment
\* exists and its slot is booked
C15_Witness ==
  \E w \in Workers :
    /\ Finished(w, "cancel") /\ Status(w) = {404}
    /\ ApptById(req[w].arg) = {}
    /\ \E a \in appointments :
         \E s \in SlotByKey(a.doctor_user_id, a.scheduled_at) : s.is_booked = 1

\* C16: a publish whose slots value is not a non-empty array, or has an
\* element that is not a well-formed timestamp, is answered 400 and inserts
\* no row, not even for the well-formed elements.
C16_InvalidPublishRejected ==
  [][\A w \in Workers, u \in Doctors, body \in PublishBodies :
       (/\ PublishSlots(w, u, body)
        /\ \/ ~body.isArray
           \/ body.slots = <<>>
           \/ \E i \in 1..Len(body.slots) : body.slots[i] \notin Times)
       => /\ Status(w)' = {400}
          /\ pc'[w] = "idle"
          /\ UNCHANGED <<db, nextSlotId, nextApptId>>
    ]_vars

\* a publish with a well-formed timestamp and a malformed one was rejected,
\* and the doctor has no slot at the well-formed one
C16_Witness ==
  \E w \in Workers :
    /\ Finished(w, "publish") /\ Status(w) = {400}
    /\ req[w].user \in Doctors
    /\ req[w].arg.isArray /\ Len(req[w].arg.slots) = 2
    /\ req[w].arg.slots[2] = Malformed
    /\ req[w].arg.slots[1] \in Times
    /\ SlotByKey(req[w].user, req[w].arg.slots[1]) = {}
    /\ doctor_slots # {}

\* C18: a delete of a slot id that no slot has, or that is a slot of
\* another doctor, is answered 404 and removes no slot.
C18_DeleteOfForeignSlot ==
  [][\A w \in Workers, u \in Doctors, id \in 1..MaxSlotId :
       (/\ DeleteSlotRead(w, u, id)
        /\ \A s \in SlotById(id) : s.doctor_user_id # u)
       => /\ resp'[w] = {Reply(404, "Slot not found", {})}
          /\ pc'[w] = "idle"
          /\ UNCHANGED <<db, nextSlotId, nextApptId>>
    ]_vars

\* a doctor asked to delete the free slot of another doctor: 404, and the
\* slot is still there
C18_Witness ==
  \E w \in Workers :
    /\ Finished(w, "delslot") /\ Status(w) = {404}
    /\ req[w].user \in Doctors
    /\ \E s \in SlotById(req[w].arg) :
         s.doctor_user_id # req[w].user /\ s.is_booked = 0

\* C13: a successful claim by patient P of slot S commits both effects in
\* one step: S becomes booked and exactly one appointment is added, with
\* patient P, the doctor and the time of S and status booked; the response
\* carries these values and the id of S; the appointment is then among the
\* rows the doctor's and the patient's appointment listings return, and
\* these listings return the appointments of their caller.
C13_ClaimCommitsBoth ==
  [][/\ \A w \in Workers :
          ClaimCommit(w) =>
            \E S \in SlotById(req[w].arg) :
              /\ S.is_booked = 0
              /\ doctor_slots' = (doctor_slots \ {S}) \cup {[S EXCEPT !.is_booked = 1]}
              /\ \E a \in appointments' \ appointments :
                   /\ appointments' = appointments \cup {a}
                   /\ a.patient_user_id = req[w].user
                   /\ a.doctor_user_id = S.doctor_user_id
                   /\ a.scheduled_at = S.slot_at
                   /\ a.status = "booked"
                   /\ resp'[w] = {Reply(201, "",
                        {[id |-> a.id, patient_user_id |-> req[w].user,
                          doctor_user_id |-> S.doctor_user_id,
                          scheduled_at |-> S.slot_at, slot_id |-> S.id]})}
                   /\ a \in DoctorAppointments(S.doctor_user_id)'
                   /\ a \in PatientAppointments(req[w].user)'
     /\ (\/ ~(appointments' \subseteq appointments)
         \/ \E s \in doctor_slots, x \in doctor_slots' :
              s.id = x.id /\ s.is_booked = 0 /\ x.is_booked = 1)
        => \E w \in Workers : pc[w] = "c_commit" /\ Status(w)' = {201}
     /\ \A w \in Workers :
          /\ ListAppointments(w, Doctor) =>
               \A r \in resp'[w] : \A d \in r.data :
                 /\ {d.rows[i] : i \in 1..Len(d.rows)} =
                      {a \in appointments : a.doctor_user_id = Doctor}
                 /\ Len(d.rows) =
                      Cardinality({a \in appointments : a.doctor_user_id = Doctor})
          /\ \A u \in Patients :
               ListMyAppointments(w, u) =>
                 \A r \in resp'[w] : \A d \in r.data :
                   /\ {d.rows[i] : i \in 1..Len(d.rows)} =
                        {a \in appointments : a.patient_user_id = u}
                   /\ Len(d.rows) =
                        Cardinality({a \in appointments : a.patient_user_id = u})
    ]_vars

\* a claim was answered 201, and the patient's listing taken after it has
\* the appointment of the response, whose slot is booked
C13_Witness ==
  \E w, q \in Workers :
    /\ Finished(w, "claim") /\ Status(w) = {201}
    /\ Finished(q, "mine") /\ Status(q) = {200}
    /\ req[q].user = req[w].user
    /\ \E r \in resp[w], l \in resp[q] : \E d \in r.data, m \in l.data :
         /\ \E i \in 1..Len(m.rows) :
              /\ m.rows[i].id = d.id
              /\ m.rows[i].patient_user_id = req[w].user
              /\ m.rows[i] \in appointments
         /\ \E s \in SlotById(d.slot_id) : s.is_booked = 1

\* C17: the patient-facing listing of a doctor returns exactly the slots
\* of that doctor whose time is at or after the current time, in ascending
\* order of time, each with its current is_booked, and changes nothing.
C17_FutureSlotsListed ==
  [][\A w \in Workers, u \in Patients, doctorId \in Doctors, now \in Clock :
       ListSlots(w, u, doctorId, now) =>
         /\ Status(w)' = {200}
         /\ pc'[w] = "idle"
         /\ UNCHANGED <<db, nextSlotId, nextApptId>>
         /\ \A r \in resp'[w] :
              /\ r.data # {}
              /\ \A d \in r.data :
                   /\ {d.rows[i] : i \in 1..Len(d.rows)} =
                        {[slot_id |-> s.id, slot_at |-> s.slot_at,
                          is_booked |-> s.is_booked] :
                           s \in {x \in doctor_slots :
                                    /\ x.doctor_user_id = doctorId
                                    /\ Rank(x.slot_at) >= Rank(now)}}
                   /\ \A i, j \in 1..Len(d.rows) :
                        i < j => Rank(d.rows[i].slot_at) < Rank(d.rows[j].slot_at)
    ]_vars

\* a listing taken at the time of the doctor's first slot has both slots
\* of the doctor, the booked one first, in the order of their times and
\* not of their ids
C17_Witness ==
  \E w \in Workers :
    /\ Finished(w, "slots") /\ Status(w) = {200}
    /\ \E r \in resp[w] : \E d \in r.data :
         /\ Len(d.rows) = 2
         /\ d.rows[1].slot_at = req[w].arg.now
         /\ d.rows[1].is_booked = 1
         /\ d.rows[1].slot_id > d.rows[2].slot_id

\* C14: every slot the patient-facing listing reports with is_booked = 0
\* can be booked: when no other request runs between the listing and the
\* claim, the claim is answered 201, in every state that publish, claim,
\* cancel and delete-slot requests lead to.
C14_ListedFreeIsBookable ==
  [][\A w \in Workers :
       (/\ Visiting(w)
        /\ req'[w].op = "claim" /\ req'[w].user = Visitor
        /\ pc'[w] = "idle")
       => Status(w)' = {201}
    ]_vars

\* C19: the conditional UPDATE of a claim changes is_booked of the slot
\* from 0 to 1 if and only if the slot exists and is free when it runs;
\* when it matches no row (the slot was booked or deleted after the
\* pre-check) the claim is rolled back and answered 409, and no
\* appointment is inserted.
C19_LostRaceRollsBack ==
  [][\A w \in Workers :
       ClaimUpdate(w) =>
         IF \E s \in SlotById(req[w].arg) : s.is_booked = 0
           THEN /\ pc'[w] = "c_insert"
                /\ txn'[w].slot = req[w].arg /\ txn'[w].is_booked = 1
                /\ UNCHANGED resp
           ELSE /\ resp'[w] = {Reply(409, "Slot already booked (race)", {})}
                /\ pc'[w] = "idle"
                /\ txn'[w] = NoTxn /\ w \notin conn'
                /\ UNCHANGED <<db, nextApptId>>
    ]_vars

\* a claim passed its pre-check, the slot was deleted before its UPDATE
\* ran, and the claim was answered 409 with no appointment inserted
C19_Witness ==
  \E w \in Workers :
    /\ Finished(w, "claim")
    /\ resp[w] = {Reply(409, "Slot already booked (race)", {})}
    /\ SlotById(req[w].arg) = {}
    /\ appointments = {} /\ nextApptId = 1

\* C20: two successful claims of one slot id are separated by a committed
\* release of the slot: a claim succeeds only on a slot whose committed
\* is_booked is 0, which it sets to 1, and only the commit of a cancel
\* sets the is_booked of a slot back to 0.
C20_ReclaimNeedsRelease ==
  [][/\ \A w \in Workers :
          (req[w].op = "claim" /\ pc[w] # "idle" /\ Status(w)' = {201}) =>
            \E s \in SlotById(req[w].arg) :
              /\ s.is_booked = 0
              /\ \E x \in doctor_slots' : x.id = s.id /\ x.is_booked = 1
     /\ \A s \in doctor_slots, x \in doctor_slots' :
          (s.id = x.id /\ s.is_booked = 1 /\ x.is_booked = 0) =>
            \E w \in Workers :
              /\ pc[w] = "x_commit"
              /\ resp'[w] = {Reply(200, "Appointment canceled", {})}
    ]_vars

\* a patient claimed the only slot ever published, cancelled, and claimed
\* it a second time
C20_Witness ==
  /\ nextSlotId = 2
  /\ \E w1, w2 \in Workers :
       /\ Finished(w1, "cancel") /\ Status(w1) = {200} /\ req[w1].arg = 1
       /\ Finished(w2, "claim") /\ Status(w2) = {201}
       /\ req[w1].user = req[w2].user
       /\ \E r \in resp[w2] : \E d \in r.data : d.id = 2
       /\ \E s \in SlotById(req[w2].arg) : s.is_booked = 1

C22_ConnectionsReleased ==
  /\ conn = {w \in Workers :
               pc[w] \in {"c_update", "c_insert", "c_commit",
                          "x_delete", "x_release", "x_commit"}}
  /\ (\A w \in Workers : pc[w] = "idle") => conn = {}

\* no request is in flight and no connection is held, after a claim that
\* lost the race (409) and a cancel whose transaction failed (500)
C22_Witness ==
  /\ conn = {}
  /\ \E w1, w2 \in Workers :
       /\ Finished(w1, "claim")
       /\ resp[w1] = {Reply(409, "Slot already booked (race)", {})}
       /\ Finished(w2, "cancel")
       /\ resp[w2] = {Reply(500, "Failed to cancel appointment", {})}

\* C23: only the commit of a claim and the commit of a cancel change
\* bookings.  is_booked goes from 0 to 1 only in the commit of a claim and
\* from 1 to 0 only in the commit of a cancel; appointments are inserted
\* and deleted only there; publish, delete-slot and the listings leave the
\* appointments and the is_booked of every slot that remains as they were.
C23_OnlyClaimAndCancelBook ==
  [][/\ \A s \in doctor_slots, x \in doctor_slots' :
          s.id = x.id =>
            /\ (s.is_booked = 0 /\ x.is_booked = 1) =>
                 \E w \in Workers :
                   req[w].op = "claim" /\ pc[w] = "c_commit" /\ Status(w)' = {201}
            /\ (s.is_booked = 1 /\ x.is_booked = 0) =>
                 \E w \in Workers :
                   req[w].op = "cancel" /\ pc[w] = "x_commit" /\ Status(w)' = {200}
     /\ appointments' # appointments =>
          \E w \in Workers :
            \/ req[w].op = "claim" /\ pc[w] = "c_commit" /\ Status(w)' = {201}
            \/ req[w].op = "cancel" /\ pc[w] = "x_commit" /\ Status(w)' = {200}
     /\ \A w \in Workers :
          /\ (\E body \in GoodBodies : PublishSlots(w, Doctor, body)) =>
               /\ UNCHANGED appointments
               /\ doctor_slots \subseteq doctor_slots'
               /\ \A x \in doctor_slots' \ doctor_slots : x.is_booked = 0
          /\ (\E id \in 1..MaxSlotId : DeleteSlotRead(w, Doctor, id)) => UNCHANGED db
          /\ DeleteSlotDelete(w) =>
               /\ UNCHANGED appointments
               /\ doctor_slots' \subseteq doctor_slots
          /\ (\/ \E now \in Clock : ListSlots(w, Visitor, Doctor, now)
              \/ ListOwnSlots(w, Doctor)
              \/ ListAppointments(w, Doctor)
              \/ ListMyAppointments(w, Visitor)) => UNCHANGED db
    ]_vars

\* the doctor published a time whose slot is booked: the publish inserted
\* nothing and the slot is still booked, with its appointment
C23_Witness ==
  \E w \in Workers :
    /\ Finished(w, "publish")
    /\ resp[w] = {Reply(201, "", {[inserted |-> 0]})}
    /\ \E s \in SlotByKey(req[w].user, req[w].arg.slots[1]) :
         /\ s.is_booked = 1
         /\ ApptByKey(s.doctor_user_id, s.slot_at) # {}
    /\ \E q \in Workers : Finished(q, "own") /\ Status(q) = {200}

\* C24: no two committed appointments have the same doctor and time, also
\* when an appointment is left without its slot, or with a free slot.
C24_UniqueAppointment ==
  \A a, b \in appointments :
    (a.doctor_user_id = b.doctor_user_id /\ a.scheduled_at = b.scheduled_at)
      => a = b

\* the slot of an appointment was deleted and its time published again;
\* a claim of the new slot, which is free, was refused and the old
\* appointment is the only one
C24_Witness ==
  \E w \in Workers :
    /\ Finished(w, "claim") /\ Status(w) = {500}
    /\ \E s \in SlotById(req[w].arg) :
         /\ s.is_booked = 0
         /\ s.id = 2
         /\ Cardinality(ApptByKey(s.doctor_user_id, s.slot_at)) = 1
         /\ \A a \in appointments : a.patient_user_id # req[w].user

\* C25: a cancel frees only the booking of the appointment it cancels:
\* the commit of a cancel does not set the is_booked of a slot to 0 while
\* an appointment for the doctor and the time of that slot exists (the
\* appointment of a patient who claimed the slot after a concurrent cancel
\* of the same appointment had freed it).
C25_LateCancelKeepsNewBooking ==
  [][\A w \in Workers :
       CancelCommit(w) =>
         \A s \in doctor_slots, x \in doctor_slots' :
           (s.id = x.id /\ s.is_booked = 1 /\ x.is_booked = 0)
             => ApptByKey(x.doctor_user_id, x.slot_at)' = {}
    ]_vars

\* C26: a success response follows the commit.  When a claim is answered
\* 201 the appointment of the response and the booked flag of its slot are
\* committed; when a cancel is answered "Appointment canceled" the
\* appointment is deleted and the slot its release matched is free in the
\* committed state; nothing of the request is pending; a request whose
\* commit fails is answered 500.
C26_SuccessAfterCommit ==
  [][\A w \in Workers :
       /\ (req[w].op = "claim" /\ pc[w] # "idle" /\ Status(w)' = {201}) =>
            /\ txn'[w] = NoTxn
            /\ \A r \in resp'[w] :
                 /\ r.data # {}
                 /\ \A d \in r.data :
                      /\ \E a \in appointments' :
                           /\ a.id = d.id
                           /\ a.patient_user_id = d.patient_user_id
                           /\ a.doctor_user_id = d.doctor_user_id
                           /\ a.scheduled_at = d.scheduled_at
                      /\ \E x \in doctor_slots' : x.id = d.slot_id /\ x.is_booked = 1
       /\ (req[w].op = "cancel" /\ pc[w] # "idle" /\ Status(w)' = {200}) =>
            /\ txn'[w] = NoTxn
            /\ ApptById(req[w].arg)' = {}
            /\ \A x \in doctor_slots' : x.id = txn[w].slot => x.is_booked = 0
       /\ ((ClaimFails(w) \/ CancelFails(w)) /\ pc[w] \in {"c_commit", "x_commit"}) =>
            Status(w)' = {500}
    ]_vars

\* a claim was answered 201 and its appointment is committed; a cancel of
\* that appointment failed and was answered 500: the appointment is still
\* there and its slot still booked
C26_Witness ==
  \E w1, w2 \in Workers :
    /\ Finished(w1, "claim") /\ Status(w1) = {201}
    /\ Finished(w2, "cancel")
    /\ resp[w2] = {Reply(500, "Failed to cancel appointment", {})}
    /\ \E r \in resp[w1] : \E d \in r.data :
         /\ d.id = req[w2].arg
         /\ ApptById(d.id) # {}
         /\ \E s \in SlotById(d.slot_id) : s.is_booked = 1

\* C28: a claim by a caller who is not a patient, and a publish or a
\* delete-slot by a caller who is not a doctor, is answered 403 and changes
\* no slot and no appointment.
C28_RoleGating ==
  [][\A w \in Workers :
       /\ (\E u \in Users \ Patients, id \in SlotIdArgs : ClaimRead(w, u, id)) =>
            /\ resp'[w] = {Reply(403, "Access denied: insufficient role", {})}
            /\ pc'[w] = "idle"
            /\ UNCHANGED <<db, nextSlotId, nextApptId>>
       /\ (\E u \in Users \ Doctors, body \in PublishBodies : PublishSlots(w, u, body)) =>
            /\ resp'[w] = {Reply(403, "Access denied: insufficient role", {})}
            /\ pc'[w] = "idle"
            /\ UNCHANGED <<db, nextSlotId, nextApptId>>
       /\ (\E u \in Users \ Doctors, id \in 1..MaxSlotId : DeleteSlotRead(w, u, id)) =>
            /\ resp'[w] = {Reply(403, "Access denied: insufficient role", {})}
            /\ pc'[w] = "idle"
            /\ UNCHANGED <<db, nextSlotId, nextApptId>>
    ]_vars

\* a patient asked to delete a free slot: 403, and the slot is still there
C28_Witness ==
  \E w \in Workers :
    /\ Finished(w, "delslot") /\ Status(w) = {403}
    /\ req[w].user \in Patients
    /\ \E s \in SlotById(req[w].arg) : s.is_booked = 0

\* C27: every claim request and every cancel request ends with exactly
\* one response, whose status is 201 or 200, 400, 403, 404, 409 or 500,
\* whatever claim, cancel and delete-slot requests run at the same time:
\* a request in flight eventually responds, and a request that has ended
\* has one response.
C27_OneResponse ==
  /\ [](\A w \in Workers :
          (pc[w] = "idle" /\ req[w].op \in {"claim", "cancel"}) =>
            /\ Cardinality(resp[w]) = 1
            /\ Status(w) \subseteq {200, 201, 400, 403, 404, 409, 500})
  /\ \A w \in Workers :
       (pc[w] # "idle" /\ req[w].op \in {"claim", "cancel"})
         ~> (pc[w] = "idle" /\ Cardinality(resp[w]) = 1)

\* a claim and a cancel that ran at the same time have both ended, the
\* claim with 500 and the cancel with 200
C27_Witness ==
  \E w1, w2 \in Workers :
    /\ Finished(w1, "claim") /\ Status(w1) = {500}
    /\ Finished(w2, "cancel") /\ Status(w2) = {200}
    /\ \E s \in SlotById(req[w1].arg) : s.is_booked = 0
    /\ appointments = {}


\* ---------------------------------------------------------------------
\* POST /signup
\* ---------------------------------------------------------------------

Phones == {"+911", "+912"}
Roles == {"patient", "doctor"}
\* doctors.license_number is VARCHAR(50)
LicenseMax == 50
\* license_number is modelled by its length (0: absent or empty)
Licenses == {0, LicenseMax, LicenseMax + 1}

\* date_of_birth is sent as "1990-01-01" or as "01/01/1990"
validateDateISO(dateStr) == dateStr = "1990-01-01"

\* password, name, sex and specialization are present and fit their columns
SignupBody(phone, r, dob, license) ==
  [phone_number |-> phone, role |-> r, date_of_birth |-> dob,
   license_number |-> license]

\* bodies that pass the validations, and one body for each validation
SignupBodies ==
  {SignupBody(ph, "patient", "1990-01-01", 0) : ph \in Phones}
    \cup {SignupBody(ph, "doctor", "1990-01-01", l) :
             ph \in Phones, l \in Licenses \ {0}}
    \cup {SignupBody("", "patient", "1990-01-01", 0),
          SignupBody("+911", "nurse", "1990-01-01", 0),
          SignupBody("+911", "patient", "01/01/1990", 0),
          SignupBody("+911", "doctor", "1990-01-01", 0)}

AccountRow(body) == [phone_number |-> body.phone_number, role |-> body.role]

\* the handler sends its response; finally { conn.release() } returns the
\* connection to the pool with whatever its transaction still holds
SignupRespond(w, r, left) ==
  /\ pc' = [pc EXCEPT ![w] = "idle"]
  /\ resp' = [resp EXCEPT ![w] = {r}]
  /\ conn' = conn \ {w}
  /\ pending' = [pending EXCEPT ![w] = NoPending]
  /\ pool' = IF left = NoPending THEN pool ELSE pool \cup {left}

SignupGoto(w, label) ==
  /\ pc' = [pc EXCEPT ![w] = label]
  /\ UNCHANGED <<resp, conn, pool>>

\* phone numbers whose users row is written but not committed by a
\* transaction other than w's: an INSERT of the same phone_number waits
PhonesLockedFor(w) ==
  {u.phone_number : u \in UNION ({pending[q].users : q \in Workers \ {w}}
                                   \cup {l.users : l \in pool})}

\* the validations of the request body, then pool.getConnection(): the
\* pool hands out any idle connection
Signup(w, body) ==
  /\ pc[w] = "idle"
  /\ req' = [req EXCEPT ![w] = [op |-> "signup", user |-> "none", arg |-> body]]
  /\ UNCHANGED <<doctor_slots, appointments, nextSlotId, nextApptId, snap, txn,
                 users, profiles>>
  /\ IF body.phone_number = ""
       THEN SignupRespond(w, Reply(400,
              "phone_number, password, role, name, sex, and date_of_birth are required",
              {}), NoPending)
     ELSE IF body.role \notin Roles
       THEN SignupRespond(w, Reply(400, "role must be 'patient' or 'doctor'", {}),
                          NoPending)
     ELSE IF ~validateDateISO(body.date_of_birth)
       THEN SignupRespond(w, Reply(400, "date_of_birth must be YYYY-MM-DD", {}),
                          NoPending)
     ELSE IF body.role = "doctor" /\ body.license_number = 0
       THEN SignupRespond(w, Reply(400,
              "license_number and specialization are required for doctors", {}),
              NoPending)
     ELSE /\ pc' = [pc EXCEPT ![w] = "s_begin"]
          /\ resp' = [resp EXCEPT ![w] = {}]
          /\ conn' = conn \cup {w}
          /\ \/ /\ pending' = [pending EXCEPT ![w] = NoPending]
                /\ UNCHANGED pool
             \/ \E l \in pool :
                  /\ pending' = [pending EXCEPT ![w] = l]
                  /\ pool' = pool \ {l}

\* conn.beginTransaction(): START TRANSACTION commits the transaction the
\* connection still has open
SignupBegin(w) ==
  /\ pc[w] = "s_begin"
  /\ users' = users \cup pending[w].users
  /\ profiles' = profiles \cup pending[w].profiles
  /\ pending' = [pending EXCEPT ![w] = NoPending]
  /\ SignupGoto(w, "s_select")
  /\ UNCHANGED <<doctor_slots, appointments, nextSlotId, nextApptId, req, snap, txn>>

\* SELECT id FROM users WHERE phone_number = ? LIMIT 1 (committed rows);
\* a row found: rollback and 400
SignupSelect(w) ==
  /\ pc[w] = "s_select"
  /\ UNCHANGED <<doctor_slots, appointments, nextSlotId, nextApptId, req, snap, txn,
                 users, profiles>>
  /\ IF \E u \in users : u.phone_number = req[w].arg.phone_number
       THEN SignupRespond(w, Reply(400, "User already exists", {}), NoPending)
       ELSE /\ SignupGoto(w, "s_insert_user")
            /\ UNCHANGED pending

\* INSERT INTO users: waits while another transaction holds the same
\* phone_number uncommitted; a committed duplicate throws, and the catch
\* block answers 500 without a rollback
SignupInsertUser(w) ==
  /\ pc[w] = "s_insert_user"
  /\ req[w].arg.phone_number \notin PhonesLockedFor(w)
  /\ UNCHANGED <<doctor_slots, appointments, nextSlotId, nextApptId, req, snap, txn,
                 users, profiles>>
  /\ IF \E u \in users : u.phone_number = req[w].arg.phone_number
       THEN SignupRespond(w, Reply(500, "Login error", {}), pending[w])
       ELSE /\ pending' = [pending EXCEPT ![w].users = {AccountRow(req[w].arg)}]
            /\ SignupGoto(w, "s_insert_role")

\* the INSERT INTO users gives up waiting (innodb_lock_wait_timeout): the
\* statement throws, and the catch block answers 500 without a rollback
SignupLockWaitTimeout(w) ==
  /\ pc[w] = "s_insert_user"
  /\ req[w].arg.phone_number \in PhonesLockedFor(w)
  /\ SignupRespond(w, Reply(500, "Login error", {}), pending[w])
  /\ UNCHANGED <<doctor_slots, appointments, nextSlotId, nextApptId, req, snap, txn,
                 users, profiles>>

\* INSERT INTO patients, or INSERT INTO doctors: a license_number longer
\* than the column throws, and the catch block answers 500 without a
\* rollback
SignupInsertRole(w) ==
  /\ pc[w] = "s_insert_role"
  /\ UNCHANGED <<doctor_slots, appointments, nextSlotId, nextApptId, req, snap, txn,
                 users, profiles>>
  /\ IF req[w].arg.role = "doctor" /\ req[w].arg.license_number > LicenseMax
       THEN SignupRespond(w, Reply(500, "Login error", {}), pending[w])
       ELSE /\ pending' = [pending EXCEPT ![w].profiles = {AccountRow(req[w].arg)}]
            /\ SignupGoto(w, "s_commit")

\* conn.commit(), then 201
SignupCommit(w) ==
  /\ pc[w] = "s_commit"
  /\ users' = users \cup pending[w].users
  /\ profiles' = profiles \cup pending[w].profiles
  /\ SignupRespond(w, Reply(201, "User registered successfully", {}), NoPending)
  /\ UNCHANGED <<doctor_slots, appointments, nextSlotId, nextApptId, req, snap, txn>>

\* the server closes an idle connection: its open transaction is rolled back
ConnectionClosed(l) ==
  /\ l \in pool
  /\ pool' = pool \ {l}
  /\ UNCHANGED <<doctor_slots, appointments, nextSlotId, nextApptId,
                 pc, req, snap, txn, conn, resp, users, profiles, pending>>

NextSignup ==
  \/ \E w \in Pair :
       \/ \E body \in SignupBodies : Signup(w, body)
       \/ SignupBegin(w)
       \/ SignupSelect(w)
       \/ SignupInsertUser(w)
       \/ SignupLockWaitTimeout(w)
       \/ SignupInsertRole(w)
       \/ SignupCommit(w)
  \/ \E l \in pool : ConnectionClosed(l)

SpecSignup == Init /\ [][NextSignup]_vars

\* C29: signup is all-or-nothing: in every committed state each users row
\* has its role row (patients or doctors) and each role row its users row,
\* also after a signup that failed once its users row was inserted and
\* whose connection was handed to a later request
C29_SignupAllOrNothing ==
  users = profiles


====
